---- MODULE Spec2Model ----
(***************************************************************************)
(* Model of rustvil's scoped OS-resource guards:                           *)
(*   - advisory file locks (fs/path_ext.rs: PathExt::lock, lock_shared,    *)
(*     FileLockGuard and its Drop),                                        *)
(*   - signal-disposition guards (signals/mod.rs: SignalGuard::ignore,     *)
(*     SignalGuard::default, new_impl_with_fallback and Drop).             *)
(*   - SignalKind (signals/mod.rs), Command::exec_replace                  *)
(*     (os/command_ext.rs), PathExt::touch and mkdir (fs/path_ext.rs),     *)
(*     Env (os/env.rs) and the xdg directories (config_files/xdg.rs).      *)
(* The OS lock table follows std::fs::File::lock (flock / LockFileEx): a   *)
(* lock belongs to the open file handle, and every PathExt::lock call      *)
(* opens a fresh handle through touch().                                   *)
(***************************************************************************)
EXTENDS Integers, Sequences, FiniteSets, TLC

\* ------------------------------------------------------------------ bounds
NThreads == 2        \* threads that call lock / lock_shared and drop guards
MaxHandles == 3      \* file handles that can be open at the same time
MaxInput == 2        \* signals yielded by the iterator given to a SignalGuard
NSigGuards == 2      \* SignalGuards constructed in one run
MaxExecCalls == 3    \* calls of exec_replace by one process
MaxExitCode == 2     \* largest exit code of a spawned command
MaxFileLen == 2      \* bytes a file can hold

Threads == 1..NThreads
Handles == 1..MaxHandles
Paths == {"P", "Q"}
\* The path the threads contend for.
LockPaths == {"P"}
NoPath == "-"
NoThread == 0

VARIABLES
    exists,     \* filesystem: which paths exist as files
    files,      \* OS: per handle held by a guard, the open file and its lock
    guards,     \* program: per handle slot, the FileLockGuard wrapping it
    pc,         \* per thread: "idle", or inside lock()/lock_shared(): "opened"
                \* (touch returned), "blocked" (suspended in file.lock())
    req,        \* per thread: the acquisition in progress; from touch() on
                \* it owns an open handle of its own, which holds no lock
    released,   \* per path: some guard on it has been dropped already
    last,       \* the call that returned last, with what it saw
    disp,       \* OS: the process-wide disposition of every signal
    disp0,      \* the dispositions before any SignalGuard was constructed
    sg,         \* per SignalGuard: its construction, stash and drop
    sk,         \* the SignalKind values built so far and how they were built
    ex,         \* the process that calls Command::exec_replace
    tree,       \* filesystem under a directory: what every path is, and the
                \* content of the files
    open,       \* the File handles returned by touch(): file and cursor
    fsLast,     \* the touch / mkdir / write / read call that returned last
    envObj,     \* an Env: its fields env and normalised_keys
    host,       \* the build target (cfg) and what home() returns
    envLast     \* the Env / xdg call that returned last, with its result

lockVars == <<exists, files, guards, pc, req, released, last>>
sigVars == <<disp, disp0, sg>>
libVars == <<sk, ex, tree, open, fsLast, envObj, host, envLast>>
vars == <<exists, files, guards, pc, req, released, last, disp, disp0, sg,
          sk, ex, tree, open, fsLast, envObj, host, envLast>>

\* ------------------------------------------------------------- lock model

ClosedFile == [open |-> FALSE, path |-> NoPath, lock |-> "none"]
NoGuard == [alive |-> FALSE, owner |-> NoThread, op |-> "none", path |-> NoPath,
            unlocks |-> 0]
NoReq == [op |-> "none", path |-> NoPath, block |-> FALSE]
NoCall == [ev |-> "none", op |-> "none", path |-> NoPath,
           block |-> FALSE, kind |-> "none", seenE |-> 0, seenS |-> 0,
           attempts |-> 0, waited |-> FALSE, again |-> FALSE, mine |-> FALSE,
           unlocks |-> 0, unlockOk |-> TRUE]

\* lock() written with the calls of lock_shared().
LockModeAlwaysShared(op) == "shared"

\* The mode lock() and lock_shared() ask the OS for.
LockMode(op) == IF op = "lock" THEN "exclusive" ELSE "shared"

\* A lock table that refuses a request only when the held lock is exclusive.
OsConflictWithExclusiveOnly(p, mode) ==
    \E o \in Handles :
        /\ files[o].open
        /\ files[o].path = p
        /\ files[o].lock = "exclusive"

\* A lock table in which any held lock refuses any request.
OsConflictWithAnyLock(p, mode) ==
    \E o \in Handles :
        /\ files[o].open
        /\ files[o].path = p
        /\ files[o].lock # "none"

\* std::fs::File::{lock, try_lock, lock_shared, try_lock_shared}: the request
\* for `mode` on a fresh handle of the file at p conflicts with a lock held
\* through another open handle of that file when either of the two is
\* exclusive.
OsConflict(p, mode) ==
    \E o \in Handles :
        /\ files[o].open
        /\ files[o].path = p
        /\ files[o].lock # "none"
        /\ (mode = "exclusive" \/ files[o].lock = "exclusive")

\* should_block ignored: file.lock() called on both branches.
SuspendsAlways(block) == TRUE

\* should_block ignored: file.try_lock() called on both branches.
SuspendsNever(block) == FALSE

\* matches!(should_block, ShouldBlock::Yes): file.lock() suspends the thread
\* while the lock is unavailable, file.try_lock() returns at once.
Suspends(block) == block

\* TryLockError::WouldBlock mapped to a generic error.
WouldBlockAsOther == "Io"

\* What the try_lock branch maps TryLockError::WouldBlock to.
WouldBlockKind == "WouldBlock"

\* Live guards on path p that came from lock() / from lock_shared().
ExclusiveGuards(p) ==
    {h \in Handles : guards[h].alive /\ guards[h].path = p /\ guards[h].op = "lock"}
SharedGuards(p) ==
    {h \in Handles : guards[h].alive /\ guards[h].path = p /\ guards[h].op = "lock_shared"}

FreeHandles == {h \in Handles : ~files[h].open /\ ~guards[h].alive}
NewHandle == CHOOSE h \in FreeHandles : \A o \in FreeHandles : h <= o
\* Threads inside lock()/lock_shared(), each with its handle open.
InCall == {t \in Threads : pc[t] # "idle"}

LockInit ==
    /\ exists = [p \in Paths |-> FALSE]
    /\ files = [h \in Handles |-> ClosedFile]
    /\ guards = [h \in Handles |-> NoGuard]
    /\ pc = [t \in Threads |-> "idle"]
    /\ req = [t \in Threads |-> NoReq]
    /\ released = [p \in Paths |-> FALSE]
    /\ last = NoCall

\* A touch that opens the path without create(true) and without mkdir.
ExistsAfterOpenOnly(e, p) == e

\* touch(): parent.mkdir(WithParents) and OpenOptions create(true) leave
\* the file at p in existence.
ExistsAfterTouch(e, p) == [e EXCEPT ![p] = TRUE]

\* let file = self.touch()?;  -- touch succeeded: the file exists now and a
\* fresh handle on it is open (read+write, create, no truncate).
Touch(t, p, op, block) ==
    /\ pc[t] = "idle"
    /\ Cardinality(InCall) < Cardinality(FreeHandles)
    /\ exists' = ExistsAfterTouch(exists, p)
    /\ req' = [req EXCEPT ![t] = [op |-> op, path |-> p, block |-> block]]
    /\ pc' = [pc EXCEPT ![t] = "opened"]
    /\ UNCHANGED <<files, guards, released, last>>
    /\ UNCHANGED <<sigVars, libVars>>

\* The record of an acquisition of thread t on path p that returned `kind`
\* after `n` lock requests: what was asked, and the guards alive on p then.
Returned(t, op, p, block, kind, n) ==
    [ev |-> "acquire", op |-> op, path |-> p, block |-> block, kind |-> kind,
     seenE |-> Cardinality(ExclusiveGuards(p)),
     seenS |-> Cardinality(SharedGuards(p)),
     attempts |-> n, waited |-> FALSE,
     again |-> released[p],
     mine |-> \E h \in Handles : guards[h].alive /\ guards[h].path = p
                                    /\ guards[h].owner = t,
     unlocks |-> 0, unlockOk |-> TRUE]

ReturnedFrom(t, kind) ==
    Returned(t, req[t].op, req[t].path, req[t].block, kind, 1)

\* The lock request of t's call is granted: result.map(|_| FileLockGuard
\* { file }) moves the handle, now holding the lock, into the guard that is
\* returned.
Grant(t, waited) ==
    LET h == NewHandle IN
    /\ files' = [files EXCEPT ![h] = [open |-> TRUE, path |-> req[t].path,
                                      lock |-> LockMode(req[t].op)]]
    /\ guards' = [guards EXCEPT ![h] =
            [alive |-> TRUE, owner |-> t, op |-> req[t].op,
             path |-> req[t].path, unlocks |-> 0]]
    /\ last' = [ReturnedFrom(t, "Ok") EXCEPT !.waited = waited]
    /\ pc' = [pc EXCEPT ![t] = "idle"]
    /\ req' = [req EXCEPT ![t] = NoReq]
    /\ UNCHANGED <<exists, released>>
    /\ UNCHANGED <<sigVars, libVars>>

\* Locks that belong to the process and the file, as fcntl record locks do:
\* closing any handle of the file gives up every lock held on it.
FilesAfterCloseOfAnyHandle(f, p) ==
    [h \in Handles |-> IF f[h].open /\ f[h].path = p
                       THEN [f[h] EXCEPT !.lock = "none"] ELSE f[h]]

\* The open handles after a call that failed drops its `file`: std's locks
\* belong to the open handle, the handle dropped holds none, so closing it
\* leaves every other handle and its lock as they were.
FilesAfterClose(f, p) == f

\* file.lock() / file.try_lock() (resp. _shared) on the handle touch()
\* returned. When the lock is unavailable the blocking call suspends the
\* thread; the non-blocking call returns the error, and the call's handle,
\* not moved into a guard, is dropped, which closes it.
LockCall(t) ==
    /\ pc[t] = "opened"
    /\ LET mode == LockMode(req[t].op)
       IN IF ~OsConflict(req[t].path, mode)
          THEN Grant(t, FALSE)
          ELSE IF Suspends(req[t].block)
          THEN /\ pc' = [pc EXCEPT ![t] = "blocked"]
               /\ UNCHANGED <<exists, files, guards, req, released, last>>
               /\ UNCHANGED <<sigVars, libVars>>
          ELSE /\ last' = ReturnedFrom(t, WouldBlockKind)
               /\ pc' = [pc EXCEPT ![t] = "idle"]
               /\ req' = [req EXCEPT ![t] = NoReq]
               /\ files' = FilesAfterClose(files, req[t].path)
               /\ UNCHANGED <<exists, guards, released>>
               /\ UNCHANGED <<sigVars, libVars>>

\* The OS wakes the thread suspended in file.lock() / file.lock_shared()
\* when the lock can be granted, and grants it.
Wake(t) ==
    /\ pc[t] = "blocked"
    /\ ~OsConflict(req[t].path, LockMode(req[t].op))
    /\ Grant(t, TRUE)

\* impl Drop for FileLockGuard: how many times drop() calls unlock().
UnlockCalls == 1

\* self.file.unlock().unwrap() in place of drop(self.file.unlock()).
DropOutcomeUnwrapped(unlockOk) == IF unlockOk THEN "unit" ELSE "panic"

\* drop(self.file.unlock()): the io::Result of unlock is discarded.
DropOutcome(unlockOk) == "unit"

\* A guard whose drop neither unlocks nor closes its File.
FileAfterDropForgotten(f, unlockOk) == f

\* The open file of a guard after drop(): unlock() has been called, and then
\* the File field is dropped, which closes the handle; the OS releases the
\* lock of a closed handle whether or not unlock() succeeded.
FileAfterDrop(f, unlockOk) == ClosedFile

\* A guard that something other than its owner thread drops at any time.
OwnerCanDropAlways(t) == TRUE

\* A guard is a value its thread owns: it is dropped by that thread, which
\* can do so only while it is not inside a lock()/lock_shared() call.
OwnerCanDrop(t) == pc[t] = "idle"

\* The guard of slot h leaves scope in its owner thread: unlock() is called,
\* then the File field is dropped, which closes the handle (and with it the
\* OS releases whatever lock the handle still holds).
DropWith(h, unlockOk) ==
    /\ guards[h].alive
    /\ OwnerCanDrop(guards[h].owner)
    /\ guards' = [guards EXCEPT ![h] = NoGuard]
    /\ files' = [files EXCEPT ![h] = FileAfterDrop(files[h], unlockOk)]
    /\ released' = [released EXCEPT ![guards[h].path] = TRUE]
    /\ last' = [NoCall EXCEPT !.ev = "drop",
                              !.op = guards[h].op, !.path = guards[h].path,
                              !.kind = DropOutcome(unlockOk),
                              !.unlocks = guards[h].unlocks + UnlockCalls,
                              !.unlockOk = unlockOk]
    /\ UNCHANGED <<exists, pc, req>>
    /\ UNCHANGED <<sigVars, libVars>>

DropGuard(h) == DropWith(h, TRUE)

\* ---- the same calls when the OS fails them for a reason other than contention

\* self.touch()? fails (mkdir of the parent or OpenOptions::open): the error
\* is returned by `?` before any lock request.
TouchFails(p, op, block) ==
    /\ \E t \in Threads : pc[t] = "idle"
    /\ last' = [NoCall EXCEPT !.ev = "acquire", !.op = op, !.path = p,
                              !.block = block, !.kind = "Io"]
    /\ UNCHANGED <<exists, files, guards, pc, req, released>>
    /\ UNCHANGED <<sigVars, libVars>>

\* A map_err arm that turns every TryLockError into WouldBlock.
LockErrorAsWouldBlock(error) == "WouldBlock"

\* std::fs::TryLockError::Error(error) => error (and the io::Error of
\* file.lock(), which is not mapped at all): the error the OS gave.
LockErrorReturned(error) == error

\* file.lock() fails, or try_lock() fails with TryLockError::Error(error):
\* the error is returned as it is and the call's handle is dropped.
LockFails(t) ==
    /\ pc[t] \in {"opened", "blocked"}
    /\ last' = [ReturnedFrom(t, LockErrorReturned("Io"))
                    EXCEPT !.waited = (pc[t] = "blocked")]
    /\ pc' = [pc EXCEPT ![t] = "idle"]
    /\ req' = [req EXCEPT ![t] = NoReq]
    /\ files' = FilesAfterClose(files, req[t].path)
    /\ UNCHANGED <<exists, guards, released>>
    /\ UNCHANGED <<sigVars, libVars>>

\* self.file.unlock() returns Err inside drop().
DropGuardUnlockFails(h) == DropWith(h, FALSE)

\* ----------------------------------------------------------- signal model

\* SignalKind values handed to the guards: int(), term() and kill().
Signals == {"SIGINT", "SIGTERM", "SIGKILL"}
\* Signals whose disposition the platform does not let libc::signal change.
Refused == {"SIGKILL"}
\* A disposition: SIG_DFL, SIG_IGN or a handler function installed earlier.
Dispositions == {"SIG_DFL", "SIG_IGN", "handler"}
SigGuards == 1..NSigGuards
Absent == "absent"

\* (LibcSignalReturnAssumed: a construction that does not read the previous
\* disposition and stashes the default one. LibcSignalTableOfGroup: a call
\* that sets the disposition of every signal at once.)
\* libc::signal(sig, handler): installs `handler` and returns the previous
\* disposition in one call, or returns SIG_ERR and changes nothing.
LibcSignalReturnAssumed(table, sig) == IF sig \in Refused THEN "SIG_ERR" ELSE "SIG_DFL"
LibcSignalReturn(table, sig) == IF sig \in Refused THEN "SIG_ERR" ELSE table[sig]
LibcSignalTableOfGroup(table, sig, handler) ==
    [s \in Signals |-> IF s \in Refused THEN table[s] ELSE handler]
LibcSignalTable(table, sig, handler) ==
    IF sig \in Refused THEN table ELSE [table EXCEPT ![sig] = handler]

\* A construction that never takes a return value for SIG_ERR.
IsSigErrNever(old) == FALSE

\* if old_handler == libc::SIG_ERR { return None; }
IsSigErr(old) == old = "SIG_ERR"

\* A construction that puts the stashed dispositions back when an
\* installation is refused.
TableRolledBack(table, stash) ==
    [s \in Signals |-> IF stash[s] # Absent THEN stash[s] ELSE table[s]]

\* return None: the local HashMap stashed_signals goes out of scope, which
\* calls nothing; no SignalGuard was built, so no SignalGuard::drop runs.
TableAfterNone(table, stash) == table

\* ignore() written with the fallback of default().
NewHandlerDefault(fallback, sig) == "SIG_DFL"

\* get_signal_for(kind): ignore() and default() pass keys = None, so the new
\* handler of every signal is the fallback.
NewHandler(fallback, sig) == fallback

NoSigGuard == [phase |-> "none", fallback |-> "-", input |-> <<>>, done |-> 0,
               stash |-> [s \in Signals |-> Absent], result |-> "none",
               sawErr |-> FALSE, restored |-> {}, calls |-> 0, errs |-> {}]

Inputs == UNION {[1..n -> Signals] : n \in 0..MaxInput}

\* ------------------------------------------- the other modules, at rest

\* No SignalKind built yet in a slot.
NoKind == [built |-> "none", arg |-> 0, kind |-> <<0>>, raw |-> 0, cint |-> 0]
KindSlots == {"a", "b"}

\* The build targets the cfg attributes tell apart.
Platforms == {"unix", "windows", "other"}
\* ExitStatus::code() of a child that has no exit code (None).
NoCode == -1
\* A process that has not called exec_replace.
NoExec == [platform |-> "unix", pc |-> "caller", calls |-> 0, ctrl |-> FALSE,
           spawned |-> FALSE, child |-> "none", code |-> NoCode,
           result |-> "none", exit |-> NoCode]

\* Paths below an existing directory: a directory entry and a file in it.
Nodes == {"x", "x/f"}
Root == "/"
Parent(n) == IF n = "x/f" THEN "x" ELSE Root
FsHandles == {"h1", "h2"}
NoNode == "-"
AbsentNode == [kind |-> "absent", data |-> <<>>]
ClosedHandle == [node |-> NoNode, pos |-> 0]
NoFsCall == [op |-> "none", node |-> NoNode, opts |-> "-", res |-> "none",
             was |-> "absent", pwas |-> "dir", before |-> <<>>, from |-> 0,
             got |-> <<>>]

\* Option::None, for a lookup or a directory that gives nothing.
None == [some |-> FALSE]
Some(v) == [some |-> TRUE, v |-> v]
EmptyEnv == [env |-> <<>>, normalised_keys |-> <<>>]
NoHost == [platform |-> "unix", target_os |-> "linux", home |-> None]
NoEnvCall == [op |-> "none", key |-> <<>>, behaviour |-> "-", out |-> None]

LibIdle ==
    /\ sk = [slot \in KindSlots |-> NoKind]
    /\ ex = NoExec
    /\ tree = [n \in Nodes |-> AbsentNode]
    /\ open = [h \in FsHandles |-> ClosedHandle]
    /\ fsLast = NoFsCall
    /\ envObj = EmptyEnv
    /\ host = NoHost
    /\ envLast = NoEnvCall

SigIdle ==
    /\ disp = [s \in Signals |-> "SIG_DFL"]
    /\ disp0 = disp
    /\ sg = [g \in SigGuards |-> NoSigGuard]

Init == LockInit /\ SigIdle /\ LibIdle

\* The process starts with any dispositions (inherited, or installed by
\* other code before the first guard).
SigInit ==
    /\ LockInit
    /\ disp \in [Signals -> Dispositions]
    /\ \A s \in Refused : disp[s] = "SIG_DFL"
    /\ disp0 = disp
    /\ sg = [g \in SigGuards |-> NoSigGuard]
    /\ LibIdle

\* SignalGuard::ignore(signals) / SignalGuard::default(signals) enter
\* new_impl_with_fallback with fallback SIG_IGN / SIG_DFL and an empty stash.
SigNew(g, fallback, input) ==
    /\ sg[g].phase = "none"
    /\ sg' = [sg EXCEPT ![g] = [NoSigGuard EXCEPT !.phase = "installing",
                                    !.fallback = fallback, !.input = input]]
    /\ UNCHANGED <<disp, disp0>>
    /\ UNCHANGED <<lockVars, libVars>>

\* One iteration of `for signal in signals`: libc::signal installs the new
\* handler; on SIG_ERR the function returns None (the stash is discarded);
\* otherwise stashed_signals.insert(signal, old_handler).
SigInstall(g) ==
    /\ sg[g].phase = "installing"
    /\ sg[g].done < Len(sg[g].input)
    /\ LET sig == sg[g].input[sg[g].done + 1]
           handler == NewHandler(sg[g].fallback, sig)
           old == LibcSignalReturn(disp, sig)
           installed == LibcSignalTable(disp, sig, handler)
       IN /\ disp' = IF IsSigErr(old)
                     THEN TableAfterNone(installed, sg[g].stash)
                     ELSE installed
          /\ IF IsSigErr(old)
             THEN sg' = [sg EXCEPT ![g].phase = "failed", ![g].result = "None",
                                   ![g].sawErr = TRUE,
                                   ![g].stash = [s \in Signals |-> Absent]]
             ELSE sg' = [sg EXCEPT ![g].done = @ + 1,
                                   ![g].stash[sig] = old,
                                   ![g].sawErr = @ \/ old = "SIG_ERR"]
    /\ UNCHANGED disp0
    /\ UNCHANGED <<lockVars, libVars>>

\* The iterator is exhausted: Some(Self { stashed_signals }).
SigReturn(g) ==
    /\ sg[g].phase = "installing"
    /\ sg[g].done = Len(sg[g].input)
    /\ sg' = [sg EXCEPT ![g].phase = "active", ![g].result = "Some"]
    /\ UNCHANGED <<disp, disp0>>
    /\ UNCHANGED <<lockVars, libVars>>

\* The drop loop checking the return value of libc::signal and panicking on
\* SIG_ERR, in place of `let _ =`.
RestoreOutcomeChecked(ret) == IF ret = "SIG_ERR" THEN "panicked" ELSE "restoring"

\* `let _ = unsafe { libc::signal(..) }`: the return value is discarded and
\* the loop goes on to the next entry.
RestoreOutcome(ret) == "restoring"

\* impl Drop for SignalGuard, one iteration of
\* `for (signal, action) in self.stashed_signals.iter()` (a HashMap: any
\* order): libc::signal(signal, action), its return value ignored.
\* `ok` is whether the OS accepts the call; a refused call returns SIG_ERR
\* and leaves the disposition as it was.
SigRestoreWith(g, s, ok) ==
    /\ sg[g].phase \in {"active", "restoring"}
    /\ sg[g].stash[s] # Absent
    /\ s \notin sg[g].restored
    /\ disp' = IF ok THEN LibcSignalTable(disp, s, sg[g].stash[s]) ELSE disp
    /\ sg' = [sg EXCEPT ![g].phase = RestoreOutcome(IF ok THEN disp[s] ELSE "SIG_ERR"),
                        ![g].restored = @ \cup {s},
                        ![g].calls = @ + 1,
                        ![g].errs = IF ok THEN @ ELSE @ \cup {s}]
    /\ UNCHANGED disp0
    /\ UNCHANGED <<lockVars, libVars>>

SigRestore(g, s) == SigRestoreWith(g, s, TRUE)

\* The same iteration when the OS refuses the reinstallation.
SigRestoreFails(g, s) == SigRestoreWith(g, s, FALSE)

\* drop() has gone through the whole stash: the guard is gone.
SigDropped(g) ==
    /\ sg[g].phase \in {"active", "restoring"}
    /\ \A s \in Signals : sg[g].stash[s] # Absent => s \in sg[g].restored
    /\ sg' = [sg EXCEPT ![g].phase = "dropped"]
    /\ UNCHANGED <<disp, disp0>>
    /\ UNCHANGED <<lockVars, libVars>>

\* The steps of SignalGuard g.
SigStep(g) ==
    \/ \E fallback \in {"SIG_IGN", "SIG_DFL"}, input \in Inputs :
            SigNew(g, fallback, input)
    \/ SigInstall(g)
    \/ SigReturn(g)
    \/ \E s \in Signals : SigRestore(g, s)
    \/ SigDropped(g)

\* One SignalGuard constructed and dropped, nothing else touching signals.
SigSpec == SigInit /\ [][SigStep(1)]_vars

\* One SignalGuard whose reinstallations in drop() the OS may refuse.
SigFaultNext == SigStep(1) \/ \E s \in Signals : SigRestoreFails(1, s)
SigFaultSpec == SigInit /\ [][SigFaultNext]_vars

\* Two threads, each constructing and dropping one SignalGuard, with nothing
\* serializing their libc::signal calls; SIGINT starts with any disposition.
SigPairNext == SigStep(1) \/ SigStep(2)
SigPairInit == SigInit /\ \A s \in Signals \ {"SIGINT"} : disp[s] = "SIG_DFL"
SigPairSpec == SigPairInit /\ [][SigPairNext]_vars

\* One thread nesting two guards: guard 2 is constructed while guard 1 is
\* active, and guard 1 is dropped only when guard 2 is gone (or was never
\* made, or its construction returned None).
NestedNext ==
    \/ \E fallback \in {"SIG_IGN", "SIG_DFL"}, input \in Inputs :
            SigNew(1, fallback, input)
    \/ SigInstall(1)
    \/ SigReturn(1)
    \/ sg[1].phase = "active" /\ SigStep(2)
    \/ /\ sg[2].phase \in {"none", "failed", "dropped"}
       /\ (\E s \in Signals : SigRestore(1, s)) \/ SigDropped(1)
NestedSpec == SigInit /\ [][NestedNext]_vars

LockNext ==
    \/ \E t \in Threads, p \in LockPaths, op \in {"lock", "lock_shared"}, b \in BOOLEAN :
            Touch(t, p, op, b)
    \/ \E t \in Threads : LockCall(t)
    \/ \E t \in Threads : Wake(t)
    \/ \E h \in Handles : DropGuard(h)

FaultNext ==
    \/ \E p \in LockPaths, op \in {"lock", "lock_shared"}, b \in BOOLEAN :
            TouchFails(p, op, b)
    \/ \E t \in Threads : LockFails(t)
    \/ \E h \in Handles : DropGuardUnlockFails(h)

\* The lock subsystem on an OS whose calls fail only by contention.
LockSpec == Init /\ [][LockNext]_vars

\* The lock subsystem on an OS whose calls may also fail otherwise.
FaultSpec == Init /\ [][LockNext \/ FaultNext]_vars

\* LockSpec with the OS waking a suspended file.lock() once it can be granted.
LockFairSpec == LockSpec /\ \A t \in Threads : WF_vars(Wake(t))

\* A process that uses one of the two guards: either it constructs and drops a
\* SignalGuard, over any disposition of SIGINT, or, with the default
\* dispositions, its threads take and release file locks on two paths: every
\* thread on Q (thread 1 without blocking), and thread 1 on P as well.
LockQuiet == last.ev = "none" /\ \A t \in Threads : pc[t] = "idle"
SigQuiet ==
    /\ \A g \in SigGuards : sg[g].phase = "none"
    /\ \A s \in Signals : disp[s] = "SIG_DFL"
FrameLockNext ==
    \/ \E op \in {"lock", "lock_shared"}, b \in BOOLEAN : Touch(1, "P", op, b)
    \/ \E t \in Threads, op \in {"lock", "lock_shared"}, b \in BOOLEAN :
            (t = 1 => ~b) /\ Touch(t, "Q", op, b)
    \/ \E t \in Threads : LockCall(t)
    \/ \E t \in Threads : Wake(t)
    \/ \E h \in Handles : DropGuard(h)
FrameNext == (LockQuiet /\ SigFaultNext) \/ (SigQuiet /\ FrameLockNext)
FrameSpec == SigPairInit /\ [][FrameNext]_vars

\* ------------------------------------------------------------ SignalKind

\* libc's numbers behind the named constructors (the values of Linux).
LibcSignal == [abort |-> 6, fpe |-> 8, int |-> 2, invalid |-> 4, segv |-> 11,
               term |-> 15, hangup |-> 1, kill |-> 9]
KindNames == DOMAIN LibcSignal
\* c_int values handed to SignalKind::from: both ends of i32, numbers that
\* are signals and numbers that are not.
RawInts == {-2147483647 - 1, -1, 0, 2, 9, 15, 64, 2147483647}

\* pub struct SignalKind(libc::c_int): a tuple struct of one field.
SignalKindOf(n) == <<n>>
\* pub const fn $name() -> Self { Self($constant) }
Named(name) == SignalKindOf(LibcSignal[name])
\* A conversion that maps the numbers below zero to zero.
FromCIntChecked(value) == SignalKindOf(IF value < 0 THEN 0 ELSE value)
\* impl From<c_int> for SignalKind: Self(value)
FromCInt(value) == SignalKindOf(value)
\* pub const fn as_raw(&self) -> c_int { self.0 }
AsRaw(k) == k[1]
\* impl From<SignalKind> for c_int: value.as_raw()
IntoCInt(k) == AsRaw(k)
\* #[derive(PartialEq, Eq)]: the fields are compared one by one.
KindEq(a, b) == \A i \in 1..Len(a) : a[i] = b[i]

\* A SignalKind built from `arg` by `how`, with what as_raw() and
\* c_int::from give for it.
Built(how, arg, k) ==
    [built |-> how, arg |-> arg, kind |-> k, raw |-> AsRaw(k), cint |-> IntoCInt(k)]

\* let k = SignalKind::name();
KindNamed(slot, name) ==
    /\ sk' = [sk EXCEPT ![slot] = Built(name, LibcSignal[name], Named(name))]
    /\ UNCHANGED <<ex, tree, open, fsLast, envObj, host, envLast>>
    /\ UNCHANGED <<lockVars, sigVars>>

\* let k = SignalKind::from(x);
KindFrom(slot, x) ==
    /\ sk' = [sk EXCEPT ![slot] = Built("from", x, FromCInt(x))]
    /\ UNCHANGED <<ex, tree, open, fsLast, envObj, host, envLast>>
    /\ UNCHANGED <<lockVars, sigVars>>

KindNext ==
    \/ \E slot \in KindSlots, name \in KindNames : KindNamed(slot, name)
    \/ \E slot \in KindSlots, x \in RawInts : KindFrom(slot, x)

\* SignalKind values built in any way, two at a time.
KindSpec == Init /\ [][KindNext]_vars

\* ---------------------------------------------------------- exec_replace

\* What ExitStatus::code() gives for a child that has terminated.
ExitCodes == (0..MaxExitCode) \cup {NoCode}
\* unwrap_or(0): a child without an exit code reported as success.
ExitStatusOrZero(code) == IF code = NoCode THEN 0 ELSE code
\* std::process::exit(child_exit.code().unwrap_or(1))
ExitStatusOf(code) == IF code = NoCode THEN 1 ELSE code

\* The crate is built for one target; the process has called nothing yet.
ExecInit ==
    /\ LockInit /\ SigIdle
    /\ sk = [slot \in KindSlots |-> NoKind]
    /\ ex \in {[NoExec EXCEPT !.platform = p] : p \in Platforms}
    /\ tree = [n \in Nodes |-> AbsentNode]
    /\ open = [h \in FsHandles |-> ClosedHandle]
    /\ fsLast = NoFsCall
    /\ envObj = EmptyEnv /\ host = NoHost /\ envLast = NoEnvCall

ExecStep(next) ==
    /\ ex' = next
    /\ UNCHANGED <<sk, tree, open, fsLast, envObj, host, envLast>>
    /\ UNCHANGED <<lockVars, sigVars>>

\* command.exec_replace() is entered.
ExecCall ==
    /\ ex.pc = "caller" /\ ex.calls < MaxExecCalls
    /\ ExecStep([ex EXCEPT !.pc = "entered", !.calls = @ + 1,
                           !.spawned = FALSE, !.result = "none"])

\* #[cfg(unix)] self.exec(): the command takes over the process, or exec
\* returns the error.
UnixExec(ok) ==
    /\ ex.platform = "unix" /\ ex.pc = "entered"
    /\ ExecStep(IF ok THEN [ex EXCEPT !.pc = "replaced", !.spawned = TRUE]
                ELSE [ex EXCEPT !.pc = "caller", !.result = "ExecErr"])

\* #[cfg(windows)] SetConsoleCtrlHandler(Some(handler), TRUE)
SetCtrlHandler(ok) ==
    /\ ex.platform = "windows" /\ ex.pc = "entered"
    /\ ExecStep(IF ok THEN [ex EXCEPT !.pc = "spawning", !.ctrl = TRUE]
                ELSE [ex EXCEPT !.pc = "caller", !.result = "CtrlErr"])

\* match self.spawn() { Ok(child) => child, Err(e) => return e }
Spawn(ok) ==
    /\ ex.pc = "spawning"
    /\ ExecStep(IF ok THEN [ex EXCEPT !.pc = "waiting", !.spawned = TRUE,
                                      !.child = "running", !.code = NoCode]
                ELSE [ex EXCEPT !.pc = "caller", !.result = "SpawnErr"])

\* The spawned command terminates.
ChildExits(code) ==
    /\ ex.child = "running"
    /\ ExecStep([ex EXCEPT !.child = "exited", !.code = code])

\* match child.wait() { Ok(status) => status, Err(e) => return e }
Wait(ok) ==
    /\ ex.pc = "waiting"
    /\ ok => ex.child = "exited"
    /\ ExecStep(IF ok THEN [ex EXCEPT !.pc = "exiting"]
                ELSE [ex EXCEPT !.pc = "caller", !.result = "WaitErr"])

\* std::process::exit(child_exit.code().unwrap_or(1))
ProcessExit ==
    /\ ex.pc = "exiting"
    /\ ExecStep([ex EXCEPT !.pc = "exited", !.exit = ExitStatusOf(ex.code)])

\* #[cfg(not(any(unix, windows)))] io::Error::other("implement `exec_replace`")
OtherReturn ==
    /\ ex.platform = "other" /\ ex.pc = "entered"
    /\ ExecStep([ex EXCEPT !.pc = "caller", !.result = "Unsupported"])

ExecNext ==
    \/ ExecCall
    \/ \E ok \in BOOLEAN : UnixExec(ok)
    \/ \E ok \in BOOLEAN : SetCtrlHandler(ok)
    \/ \E ok \in BOOLEAN : Spawn(ok)
    \/ \E code \in ExitCodes : ChildExits(code)
    \/ \E ok \in BOOLEAN : Wait(ok)
    \/ ProcessExit
    \/ OtherReturn

\* A process that calls exec_replace, again after each error it gets back.
ExecSpec == ExecInit /\ [][ExecNext]_vars

\* ------------------------------------------------------- touch and mkdir

Bytes == {"a", "b"}
\* What path n is in tree tr; the directory everything lives in exists.
KindOf(tr, n) == IF n = Root THEN "dir" ELSE tr[n].kind

\* std::fs::create_dir: mkdir(2).
CreateDir(tr, n) ==
    IF KindOf(tr, n) # "absent" THEN [res |-> "AlreadyExists", tree |-> tr]
    ELSE IF KindOf(tr, Parent(n)) = "absent" THEN [res |-> "NotFound", tree |-> tr]
    ELSE IF KindOf(tr, Parent(n)) = "file" THEN [res |-> "NotADirectory", tree |-> tr]
    ELSE [res |-> "Ok", tree |-> [tr EXCEPT ![n].kind = "dir"]]

\* std::fs::create_dir_all: mkdir; on NotFound the parent is created first
\* and mkdir is tried again; any other error is Ok when the path is a
\* directory.
RECURSIVE CreateDirAll(_, _)
CreateDirAll(tr, n) ==
    LET first == CreateDir(tr, n)
        OrIsDir(r) == IF r.res # "Ok" /\ KindOf(r.tree, n) = "dir"
                      THEN [r EXCEPT !.res = "Ok"] ELSE r
    IN IF first.res # "NotFound" THEN OrIsDir(first)
       ELSE LET up == CreateDirAll(tr, Parent(n))
            IN IF up.res # "Ok" THEN up ELSE OrIsDir(CreateDir(up.tree, n))

\* mkdir that hands the result of create_dir / create_dir_all through.
MkdirResultRaw(kind) == kind

\* Err(e) if e.kind() == io::ErrorKind::AlreadyExists => Ok(()), _ => result
MkdirResult(kind) == IF kind = "AlreadyExists" THEN "Ok" ELSE kind

\* PathExt::mkdir
Mkdir(tr, n, opts) ==
    LET result == IF opts = "WithoutParents" THEN CreateDir(tr, n)
                  ELSE CreateDirAll(tr, n)
    IN [result EXCEPT !.res = MkdirResult(result.res)]

\* OpenOptions with truncate(true).
ContentTruncated(data) == <<>>

\* opts.read(true).write(true).create(true).truncate(false): the content of
\* an existing file after open.
ContentAfterOpen(data) == data

\* PathExt::touch: parent.mkdir(WithParents)?, then opts.open(self).
TouchOn(tr, n) ==
    LET made == Mkdir(tr, Parent(n), "WithParents")
        t == made.tree
    IN IF made.res # "Ok" THEN made
       ELSE IF KindOf(t, n) = "file"
       THEN [res |-> "Ok", tree |-> [t EXCEPT ![n].data = ContentAfterOpen(@)]]
       ELSE IF KindOf(t, n) = "dir" THEN [res |-> "IsADirectory", tree |-> t]
       ELSE IF KindOf(t, Parent(n)) # "dir" THEN [res |-> "NotADirectory", tree |-> t]
       ELSE [res |-> "Ok", tree |-> [t EXCEPT ![n] = [kind |-> "file", data |-> <<>>]]]

\* The record of a call on path n that returned res.
FsCall(op, n, opts, res) ==
    [NoFsCall EXCEPT !.op = op, !.node = n, !.opts = opts, !.res = res,
                     !.was = KindOf(tree, n), !.pwas = KindOf(tree, Parent(n))]

\* let file = path.touch();   (h: where the caller keeps the File)
TouchCall(h, n) ==
    LET r == TouchOn(tree, n) IN
    /\ open[h] = ClosedHandle
    /\ tree' = r.tree
    /\ open' = IF r.res = "Ok" THEN [open EXCEPT ![h] = [node |-> n, pos |-> 0]]
               ELSE open
    /\ fsLast' = [FsCall("touch", n, "-", r.res) EXCEPT !.before = tree[n].data]
    /\ UNCHANGED <<sk, ex, envObj, host, envLast>>
    /\ UNCHANGED <<lockVars, sigVars>>

\* path.mkdir(opts)
MkdirCall(n, opts) ==
    LET r == Mkdir(tree, n, opts) IN
    /\ tree' = r.tree
    /\ fsLast' = FsCall("mkdir", n, opts, r.res)
    /\ UNCHANGED <<sk, ex, open, envObj, host, envLast>>
    /\ UNCHANGED <<lockVars, sigVars>>

\* file.write_all(&[b]) through a handle touch returned: the byte goes to
\* the handle's cursor, which moves on.
WriteByte(h, b) ==
    LET n == open[h].node
        at == open[h].pos
    IN /\ n # NoNode /\ at < MaxFileLen
       /\ tree' = [tree EXCEPT ![n].data = IF at < Len(@) THEN [@ EXCEPT ![at + 1] = b]
                                            ELSE Append(@, b)]
       /\ open' = [open EXCEPT ![h].pos = at + 1]
       /\ fsLast' = [FsCall("write", n, "-", "Ok") EXCEPT !.from = at]
       /\ UNCHANGED <<sk, ex, envObj, host, envLast>>
       /\ UNCHANGED <<lockVars, sigVars>>

\* file.read_to_string(&mut content): everything from the cursor to the end.
ReadAll(h) ==
    LET n == open[h].node
        at == open[h].pos
    IN /\ n # NoNode
       /\ open' = [open EXCEPT ![h].pos = Len(tree[n].data)]
       /\ fsLast' = [FsCall("read", n, "-", "Ok") EXCEPT !.from = at,
                        !.got = SubSeq(tree[n].data, at + 1, Len(tree[n].data))]
       /\ UNCHANGED <<sk, ex, tree, envObj, host, envLast>>
       /\ UNCHANGED <<lockVars, sigVars>>

\* The File goes out of scope.
CloseFile(h) ==
    /\ open[h] # ClosedHandle
    /\ open' = [open EXCEPT ![h] = ClosedHandle]
    /\ fsLast' = FsCall("close", open[h].node, "-", "Ok")
    /\ UNCHANGED <<sk, ex, tree, envObj, host, envLast>>
    /\ UNCHANGED <<lockVars, sigVars>>

FsNext ==
    \/ \E h \in FsHandles, n \in Nodes : TouchCall(h, n)
    \/ \E n \in Nodes, opts \in {"WithParents", "WithoutParents"} : MkdirCall(n, opts)
    \/ \E h \in FsHandles, b \in Bytes : WriteByte(h, b)
    \/ \E h \in FsHandles : ReadAll(h)
    \/ \E h \in FsHandles : CloseFile(h)

\* touch, mkdir and I/O through the returned files, in any order, below a
\* directory that nothing else writes to.
FsSpec == Init /\ [][FsNext]_vars

\* ------------------------------------------------------------- Env, xdg

\* An OsString: its characters, and whether it is valid UTF-8.
Str(chars) == [utf8 |-> TRUE, s |-> chars]
NonUtf8(chars) == [utf8 |-> FALSE, s |-> chars]
\* str::to_uppercase, character by character.
ToUppercase(chars) ==
    [i \in 1..Len(chars) |-> CASE chars[i] = "a" -> "A" [] chars[i] = "l" -> "L"
                               [] OTHER -> chars[i]]

\* Env::normalize_keys / Env::from_iter: per upper-cased UTF-8 key, one of
\* the keys of env with that upper case (the HashMap keeps the one inserted
\* last, in the iteration order of a HashMap).
NormalizeKeys(m) ==
    LET utf == {k \in DOMAIN m : k.utf8}
    IN {n \in [{ToUppercase(k.s) : k \in utf} -> {k.s : k \in utf}] :
            \A u \in DOMAIN n : ToUppercase(n[u]) = u}
\* Env::new_from(env) / Env::reload_from(env)
EnvsFrom(m) == {[env |-> m, normalised_keys |-> n] : n \in NormalizeKeys(m)}
\* Every HashMap<OsString, OsString> over the keys, with the values.
MapsOver(keys, values) == UNION {[present -> values] : present \in SUBSET keys}

\* get_os with the fallback to the normalised keys on every target.
UsesNormalisedAlways(platform) == TRUE

\* if cfg!(windows) { self.get_normalised(key) } else { None }
UsesNormalised(platform) == platform = "windows"

\* Env::get_normalised
GetNormalised(e, key) ==
    IF ~key.utf8 THEN None
    ELSE LET k == ToUppercase(key.s)
         IN IF k \notin DOMAIN e.normalised_keys THEN None
            ELSE LET env_key == Str(e.normalised_keys[k])
                 IN IF env_key \in DOMAIN e.env THEN Some(e.env[env_key]) ELSE None

\* Env::get_os
GetOs(e, key, platform) ==
    IF key \in DOMAIN e.env THEN Some(e.env[key])
    ELSE IF UsesNormalised(platform) THEN GetNormalised(e, key)
    ELSE None

\* Env::get: Missing when get_os gives None, NonUTF8 when to_str() does.
Get(e, key, platform) ==
    LET v == GetOs(e, key, platform)
    IN IF ~v.some THEN [ok |-> FALSE, err |-> "Missing", key |-> key]
       ELSE IF ~v.v.utf8 THEN [ok |-> FALSE, err |-> "NonUTF8", key |-> key]
       ELSE [ok |-> TRUE, v |-> v.v.s]

\* Keys that differ in letter case only, as in test::basic_test, and one
\* that is not UTF-8; the values stored under them.
CaseKeys == {Str(<<"a", "l", "a">>), Str(<<"a", "L", "A">>), Str(<<"A", "L", "A">>),
             NonUtf8(<<"a", "l", "a">>)}
CaseValues == {Str(<<"bar">>), Str(<<"baz">>), NonUtf8(<<"bar">>)}

\* An Env built (new_from, from_iter, reload_from) from any map over these
\* keys, on any target.
EnvInit ==
    /\ LockInit /\ SigIdle
    /\ sk = [slot \in KindSlots |-> NoKind]
    /\ ex = NoExec
    /\ tree = [n \in Nodes |-> AbsentNode]
    /\ open = [h \in FsHandles |-> ClosedHandle]
    /\ fsLast = NoFsCall
    /\ envObj \in UNION {EnvsFrom(m) : m \in MapsOver(CaseKeys, CaseValues)}
    /\ host \in {[NoHost EXCEPT !.platform = p] : p \in Platforms}
    /\ envLast = NoEnvCall

\* env.get_os(key)
GetOsCall(key) ==
    /\ envLast' = [NoEnvCall EXCEPT !.op = "get_os", !.key = key,
                                    !.out = GetOs(envObj, key, host.platform)]
    /\ UNCHANGED <<sk, ex, tree, open, fsLast, envObj, host>>
    /\ UNCHANGED <<lockVars, sigVars>>

\* env.has(key): self.get_os(key).is_some()
HasCall(key) ==
    /\ envLast' = [NoEnvCall EXCEPT !.op = "has", !.key = key,
                        !.out = [is |-> GetOs(envObj, key, host.platform).some]]
    /\ UNCHANGED <<sk, ex, tree, open, fsLast, envObj, host>>
    /\ UNCHANGED <<lockVars, sigVars>>

\* env.get(key)
GetCall(key) ==
    /\ envLast' = [NoEnvCall EXCEPT !.op = "get", !.key = key,
                                    !.out = Get(envObj, key, host.platform)]
    /\ UNCHANGED <<sk, ex, tree, open, fsLast, envObj, host>>
    /\ UNCHANGED <<lockVars, sigVars>>

EnvNext ==
    \/ \E key \in CaseKeys : GetOsCall(key)
    \/ \E key \in CaseKeys : HasCall(key)
    \/ \E key \in CaseKeys : GetCall(key)

\* Lookups in an Env.
EnvSpec == EnvInit /\ [][EnvNext]_vars

\* The variable each xdg function reads.
XdgKey == [config |-> Str(<<"XDG_CONFIG_HOME">>), data |-> Str(<<"XDG_DATA_HOME">>),
           cache |-> Str(<<"XDG_CACHE_HOME">>), state |-> Str(<<"XDG_STATE_HOME">>)]
LocalAppData == Str(<<"LOCALAPPDATA">>)
\* The directories each fallback pushes below the home directory:
\* ~/Library/... on macOS with UseLibrary, the Linux ones otherwise.
LibraryDirs == [config |-> <<"Library", "Application Support">>,
                data |-> <<"Library", "Application Support">>,
                cache |-> <<"Library", "Caches">>,
                state |-> <<"Library", "Application Support">>]
LinuxDirs == [config |-> <<".config">>, data |-> <<".local", ".share">>,
              cache |-> <<".cache">>, state |-> <<".local", ".state">>]

\* config_fallback / data_fallback / cache_fallback / state_fallback
XdgFallback(fn, e, h, behaviour) ==
    IF h.platform = "windows"
    THEN LET v == Get(e, LocalAppData, h.platform)
         IN IF ~v.ok THEN None
            ELSE Some(v.v \o (IF fn = "cache" THEN <<"caches">> ELSE <<>>))
    ELSE IF ~h.home.some THEN None
    ELSE IF h.target_os = "macos" /\ behaviour = "UseLibrary"
    THEN Some(h.home.v \o LibraryDirs[fn])
    ELSE Some(h.home.v \o LinuxDirs[fn])

\* xdg::config / data / cache / state:
\* env.get(KEY).ok().map(PathBuf::from).or_else(|| fallback(env, behaviour))
XdgDir(fn, e, h, behaviour) ==
    LET v == Get(e, XdgKey[fn], h.platform)
    IN IF v.ok THEN Some(v.v) ELSE XdgFallback(fn, e, h, behaviour)

\* Any Env over the XDG variables and LOCALAPPDATA, any target, home()
\* giving a directory or None.
XdgInit ==
    /\ LockInit /\ SigIdle
    /\ sk = [slot \in KindSlots |-> NoKind]
    /\ ex = NoExec
    /\ tree = [n \in Nodes |-> AbsentNode]
    /\ open = [h \in FsHandles |-> ClosedHandle]
    /\ fsLast = NoFsCall
    /\ envObj \in UNION {EnvsFrom(m) :
            m \in MapsOver({XdgKey[fn] : fn \in DOMAIN XdgKey} \cup {LocalAppData},
                           {Str(<<"dir">>), NonUtf8(<<"dir">>)})}
    /\ host \in {[platform |-> IF os = "windows" THEN "windows" ELSE "unix",
                  target_os |-> os, home |-> hm] :
                    os \in {"linux", "macos", "windows"},
                    hm \in {None, Some(<<"home">>)}}
    /\ envLast = NoEnvCall

\* xdg::config(&env, behaviour) and its three siblings.
XdgCall(fn, behaviour) ==
    /\ envLast' = [NoEnvCall EXCEPT !.op = fn, !.key = XdgKey[fn],
                        !.behaviour = behaviour,
                        !.out = XdgDir(fn, envObj, host, behaviour)]
    /\ UNCHANGED <<sk, ex, tree, open, fsLast, envObj, host>>
    /\ UNCHANGED <<lockVars, sigVars>>

XdgNext ==
    \E fn \in DOMAIN XdgKey, behaviour \in {"UseLibrary", "LinuxFallback"} :
        XdgCall(fn, behaviour)

XdgSpec == XdgInit /\ [][XdgNext]_vars

\* ----------------------------------- the File behind a guard, through Deref

\* impl Deref / DerefMut for FileLockGuard hand out the File; the call
\* guard.unlock() is File::unlock(&self) on the guard's handle.
DerefUnlock(h) ==
    /\ guards[h].alive
    /\ pc[guards[h].owner] = "idle"
    /\ files' = [files EXCEPT ![h].lock = "none"]
    /\ last' = [NoCall EXCEPT !.ev = "deref", !.op = "unlock",
                              !.path = guards[h].path, !.kind = "Ok"]
    /\ UNCHANGED <<exists, guards, pc, req, released>>
    /\ UNCHANGED <<sigVars, libVars>>

\* guard.try_lock() / guard.try_lock_shared(): File::try_lock(&self) on the
\* guard's handle. The OS replaces the lock the handle holds by one of the
\* mode asked for, unless a lock of another handle conflicts with it.
DerefTryLock(h, mode) ==
    LET p == guards[h].path
        conflict == \E o \in Handles \ {h} :
                        /\ files[o].open /\ files[o].path = p
                        /\ files[o].lock # "none"
                        /\ (mode = "exclusive" \/ files[o].lock = "exclusive")
    IN /\ guards[h].alive
       /\ pc[guards[h].owner] = "idle"
       /\ files' = IF conflict THEN files ELSE [files EXCEPT ![h].lock = mode]
       /\ last' = [NoCall EXCEPT !.ev = "deref",
                        !.op = IF mode = "exclusive" THEN "try_lock" ELSE "try_lock_shared",
                        !.path = p,
                        !.kind = IF conflict THEN "WouldBlock" ELSE "Ok"]
       /\ UNCHANGED <<exists, guards, pc, req, released>>
       /\ UNCHANGED <<sigVars, libVars>>

DerefNext ==
    \/ \E h \in Handles : DerefUnlock(h)
    \/ \E h \in Handles, mode \in {"exclusive", "shared"} : DerefTryLock(h, mode)

\* The lock subsystem with the holders of guards also calling the lock
\* methods of std::fs::File on them.
DerefSpec == Init /\ [][LockNext \/ DerefNext]_vars

\* ------------------------------------------------------------ lock claims

GuardsOn(p) == ExclusiveGuards(p) \cup SharedGuards(p)
\* The last call was an acquisition that reached its lock request.
Acquisition == last.ev = "acquire" /\ last.attempts > 0
NonBlockingReturn == Acquisition /\ ~last.block
BlockingReturn == Acquisition /\ last.block
\* Live guards on the path of t's request that are incompatible with it.
IncompatibleGuards(t) ==
    IF req[t].op = "lock" THEN GuardsOn(req[t].path)
    ELSE ExclusiveGuards(req[t].path)
\* Thread t becomes suspended in this step.
Suspended(t) == pc[t] = "opened" /\ pc'[t] = "blocked"

\* C1: mutual exclusion. In no reachable state does a guard obtained from
\* lock() on a path exist together with any other guard on that path.
C1_MutualExclusion ==
    \A p \in Paths :
        ExclusiveGuards(p) # {} => Cardinality(GuardsOn(p)) = 1

\* An exclusive guard is alive, an acquisition on its path has just been
\* turned away and another one is suspended.
C1_Witness ==
    /\ ExclusiveGuards("P") # {}
    /\ last.ev = "acquire" /\ last.path = "P" /\ last.kind = "WouldBlock"
    /\ \E t \in Threads : pc[t] = "blocked" /\ req[t].path = "P"

\* C2: a non-blocking lock or lock_shared made while an exclusive guard on
\* the path is alive returns WouldBlock and creates no guard, whoever calls.
C2_ExclusiveRefusesNonBlocking ==
    (NonBlockingReturn /\ last.seenE >= 1) =>
        /\ last.kind = "WouldBlock"
        /\ Cardinality(GuardsOn(last.path)) = last.seenE + last.seenS

\* The holder of the exclusive guard itself asked for a shared lock and was
\* refused.
C2_Witness ==
    /\ NonBlockingReturn /\ last.seenE = 1 /\ last.mine
    /\ last.op = "lock_shared" /\ last.kind = "WouldBlock"

\* C3: a non-blocking lock() made while one or more shared guards on the
\* path are alive returns WouldBlock and creates no guard.
C3_SharedRefusesExclusive ==
    (NonBlockingReturn /\ last.op = "lock" /\ last.seenS >= 1) =>
        /\ last.kind = "WouldBlock"
        /\ Cardinality(GuardsOn(last.path)) = last.seenS

\* lock(No) was refused while two shared guards were alive.
C3_Witness ==
    /\ NonBlockingReturn /\ last.op = "lock" /\ last.seenS = 2
    /\ last.kind = "WouldBlock"

\* C4: with no exclusive guard alive on the path, lock_shared succeeds
\* whatever the number of shared guards: the call returns Ok and its guard
\* is held together with the earlier ones; a blocking call is suspended only
\* when an exclusive guard is alive and, suspended, can be granted as soon as
\* none is.
C4_SharedCoexist ==
    /\ [](/\ (Acquisition /\ last.op = "lock_shared" /\ last.seenE = 0) =>
                /\ last.kind = "Ok"
                /\ Cardinality(SharedGuards(last.path)) = last.seenS + 1
          /\ \A t \in Threads :
                (pc[t] = "blocked" /\ req[t].op = "lock_shared"
                    /\ ExclusiveGuards(req[t].path) = {}) => ENABLED Wake(t))
    /\ [][\A t \in Threads :
            (Suspended(t) /\ req[t].op = "lock_shared") =>
                ExclusiveGuards(req[t].path) # {}]_vars

\* Three shared guards of two threads are held at the same time.
C4_Witness ==
    /\ Cardinality(SharedGuards("P")) = 3
    /\ {guards[h].owner : h \in SharedGuards("P")} = {1, 2}
    /\ last.ev = "acquire" /\ last.kind = "Ok" /\ last.seenS = 2

\* C5: when no guard on the path is alive, an acquisition of either mode,
\* blocking or not, succeeds, also after any number of releases: the call
\* returns Ok, is not suspended, and a suspended call can be granted.
C5_ReacquireAfterRelease ==
    /\ []( /\ (Acquisition /\ last.seenE = 0 /\ last.seenS = 0) =>
                    last.kind = "Ok"
           /\ \A t \in Threads :
                (pc[t] = "blocked" /\ GuardsOn(req[t].path) = {}) =>
                    ENABLED Wake(t))
    /\ [][\A t \in Threads : Suspended(t) => GuardsOn(req[t].path) # {}]_vars

\* An exclusive lock was acquired on a path whose earlier guards were all
\* dropped.
C5_Witness ==
    /\ last.ev = "acquire" /\ last.kind = "Ok" /\ last.again
    /\ last.op = "lock" /\ last.seenE = 0 /\ last.seenS = 0

\* C6: a non-blocking acquisition is never suspended, and it returns after
\* exactly one lock request with Ok, WouldBlock or another error.
C6_NonBlockingNeverWaits ==
    /\ \A t \in Threads : pc[t] = "blocked" => req[t].block
    /\ NonBlockingReturn =>
            /\ last.attempts = 1 /\ ~last.waited
            /\ last.kind \in {"Ok", "WouldBlock", "Io"}

\* A non-blocking call met a held lock and returned after one request.
C6_Witness ==
    /\ NonBlockingReturn /\ last.kind = "WouldBlock" /\ last.attempts = 1
    /\ last.seenS + last.seenE >= 1

\* C7: a blocking acquisition returns only when no incompatible guard on
\* its path is alive, and then with Ok; and a thread suspended in it does not
\* stay suspended for ever once the incompatible guards are gone for good.
C7_BlockingWaitsThenSucceeds ==
    /\ [](BlockingReturn =>
            /\ last.kind = "Ok"
            /\ last.seenE = 0
            /\ last.op = "lock" => last.seenS = 0)
    /\ \A t \in Threads :
            []<>(pc[t] # "blocked" \/ IncompatibleGuards(t) # {})

\* A blocking lock() that was suspended (shared guards were alive) has
\* returned its guard.
C7_Witness ==
    /\ BlockingReturn /\ last.waited /\ last.op = "lock" /\ last.kind = "Ok"
    /\ last.again /\ Cardinality(ExclusiveGuards("P")) = 1

\* C8: unlock is called once per guard, by its drop and not before; the
\* drop returns normally also when unlock fails, and a handle that holds a
\* lock always belongs to a live guard.
C8_ReleaseOnDropOnce ==
    /\ \A h \in Handles : guards[h].alive => guards[h].unlocks = 0
    /\ last.ev = "drop" => (last.unlocks = 1 /\ last.kind = "unit")
    /\ \A h \in Handles : files[h].lock # "none" => guards[h].alive

\* A guard was dropped and its unlock failed.
C8_Witness ==
    /\ last.ev = "drop" /\ ~last.unlockOk /\ last.unlocks = 1
    /\ GuardsOn(last.path) = {}

\* C14: lock and lock_shared run touch first and request the OS lock only
\* afterwards, on the handle touch returned: whenever a lock request is
\* pending, was made, or a guard is held, the file exists; when touch fails
\* its error is returned with no lock request made, and that step leaves the
\* lock table, the guards and the threads as they were; a path that does not
\* exist can be locked (touch is enabled on it).
C14_ProvisionBeforeLock ==
    /\ [](/\ \A t \in Threads : pc[t] # "idle" => exists[req[t].path]
          /\ Acquisition => exists[last.path]
          /\ \A h \in Handles : guards[h].alive => exists[guards[h].path]
          /\ (last.ev = "acquire" /\ last.attempts = 0) => last.kind = "Io"
          /\ \A p \in LockPaths :
                (~exists[p] /\ (\A t \in Threads : pc[t] = "idle")) =>
                    ENABLED Touch(1, p, "lock", TRUE))
    /\ [][(last' # last /\ last'.ev = "acquire" /\ last'.attempts = 0) =>
            (files' = files /\ guards' = guards /\ pc' = pc /\ req' = req)]_vars

\* lock() on a path that did not exist at the start returned the first
\* guard on it: the file exists now.
C14_Witness ==
    /\ last.ev = "acquire" /\ last.op = "lock" /\ last.kind = "Ok"
    /\ ~last.again /\ last.seenE + last.seenS = 0
    /\ exists["P"] /\ Cardinality(ExclusiveGuards("P")) = 1

\* C19: in every reachable state, operations on the File behind a guard
\* included, every live FileLockGuard has an OS lock registered for its
\* handle, in the mode asked for when the guard was acquired.
C19_GuardHoldsItsLock ==
    \A h \in Handles :
        guards[h].alive =>
            (files[h].open /\ files[h].lock = LockMode(guards[h].op))

\* C24: an acquisition returns WouldBlock only when it was non-blocking and
\* the OS refused its lock request because an incompatible guard was alive,
\* and a non-blocking request the OS refuses for that reason returns
\* WouldBlock; a lock call that fails for another reason returns that error
\* as it is; a blocking acquisition returns Ok or that other error, never
\* WouldBlock.
C24_ErrorTaxonomy ==
    /\ []((last.ev = "acquire" /\ last.kind = "WouldBlock") =>
            /\ ~last.block
            /\ last.seenE >= 1 \/ (last.op = "lock" /\ last.seenS >= 1))
    /\ []((last.ev = "acquire" /\ last.block) => last.kind \in {"Ok", "Io"})
    /\ [][\A t \in Threads :
            /\ LockFails(t) => last'.kind = "Io"
            /\ (LockCall(t) /\ pc'[t] = "idle" /\ guards' = guards) =>
                    /\ ~req[t].block
                    /\ OsConflict(req[t].path, LockMode(req[t].op))
                    /\ last'.kind = "WouldBlock"]_vars

\* A non-blocking lock() failed for another reason while a shared guard was
\* alive on the path: the error came back as it was, not as WouldBlock.
C24_Witness ==
    /\ last.ev = "acquire" /\ ~last.block /\ last.op = "lock"
    /\ last.kind = "Io" /\ last.seenS = 1 /\ last.attempts = 1

\* ---- a caller polling lock(ShouldBlock::No) against threads that hold and
\* ---- release the lock in turn

\* The thread that retries lock(ShouldBlock::No) on P.
Poller == 1
Holders == Threads \ {Poller}

\* One schedule of the threads of LockSpec: the poller calls lock(No) over and
\* over, and its lock request is served while another thread holds a guard;
\* the other threads acquire P in either mode with non-blocking calls, while
\* fewer than two guards are alive or being asked for, and drop their guards.
PollRetry == Touch(Poller, "P", "lock", FALSE)
PollRequest == GuardsOn("P") # {} /\ LockCall(Poller)
HolderMayCall ==
    Cardinality(GuardsOn("P")) + Cardinality({t \in Holders : pc[t] # "idle"}) < 2
HolderStep ==
    \/ \E t \in Holders, op \in {"lock", "lock_shared"} :
            HolderMayCall /\ Touch(t, "P", op, FALSE)
    \/ \E t \in Holders : LockCall(t)
Release == \E h \in Handles : DropGuard(h)
ReleaseLast == Cardinality(GuardsOn("P")) = 1 /\ Release
PollNext == PollRetry \/ PollRequest \/ HolderStep \/ Release

\* Every thread keeps running: the poller keeps retrying, the holders keep
\* acquiring and dropping.
PollSpec ==
    /\ Init /\ [][PollNext]_vars
    /\ SF_vars(PollRetry) /\ SF_vars(PollRequest)
    /\ SF_vars(HolderStep) /\ WF_vars(Release) /\ SF_vars(ReleaseLast)

\* C25: polling is not fair. In every behaviour of this schedule, which is a
\* behaviour of the lock subsystem, the poller's lock request is made again
\* and again and returns WouldBlock each time, the poller never holds a
\* guard, and yet P is free of guards again and again: the threads that
\* re-acquire it between the retries keep the poller out for ever.
C25_PollingStarves ==
    /\ LockSpec
    /\ [][LockCall(Poller) => last'.kind = "WouldBlock" /\ guards' = guards]_vars
    /\ [](\A h \in Handles : guards[h].alive => guards[h].owner # Poller)
    /\ []<><<LockCall(Poller)>>_vars
    /\ []<>(GuardsOn("P") = {})
    /\ []<>(GuardsOn("P") # {})

\* The poller was refused although P had been released before: the guard
\* that refused it was acquired after that release.
C25_Witness ==
    /\ last.ev = "acquire" /\ last.op = "lock" /\ ~last.block
    /\ last.kind = "WouldBlock" /\ last.again /\ ~last.mine
    /\ pc[Poller] = "idle"

\* C27: an acquisition that returns an error, WouldBlock or another, leaves
\* no guard and no open handle of its own behind and changes no lock: the
\* guards alive and the locks their handles hold are those of before the
\* call, and no other thread's call is touched.
C27_FailureChangesNothing ==
    /\ [][\A t \in Threads :
        (LockFails(t) \/ (LockCall(t) /\ last'.kind \notin {"Ok", "none"}
                                      /\ pc'[t] = "idle")) =>
            /\ last'.ev = "acquire" /\ last'.kind \in {"WouldBlock", "Io"}
            /\ guards' = guards
            /\ files' = files
            /\ req'[t] = NoReq
            /\ InCall' = InCall \ {t}
            /\ \A u \in Threads \ {t} : pc'[u] = pc[u] /\ req'[u] = req[u]]_vars
    /\ [][(\E p \in LockPaths, op \in {"lock", "lock_shared"}, b \in BOOLEAN :
                TouchFails(p, op, b)) =>
            /\ last'.kind = "Io"
            /\ guards' = guards /\ files' = files
            /\ pc' = pc /\ req' = req]_vars

\* A blocking call failed while it was waiting for an exclusive guard, and
\* that guard and its lock are still there.
C27_Witness ==
    /\ last.ev = "acquire" /\ last.kind = "Io" /\ last.waited
    /\ \E h \in Handles : /\ guards[h].alive /\ guards[h].op = "lock"
                          /\ files[h].open /\ files[h].lock = "exclusive"

\* Guards of thread t itself that are incompatible with the request it is
\* suspended in.
OwnIncompatible(t) == {h \in IncompatibleGuards(t) : guards[h].owner = t}
SelfBlocked(t) == pc[t] = "blocked" /\ OwnIncompatible(t) # {}

\* C28: a guard of the calling thread conflicts like anybody else's. A thread
\* that makes a blocking acquisition on a path on which it holds an
\* incompatible guard (any guard when it asks for the exclusive lock, an
\* exclusive guard when it asks for the shared one) is suspended, cannot be
\* woken, and stays suspended in every later state: its own guard is never
\* dropped, and the call never returns.
C28_SelfDeadlock ==
    /\ [][\A t \in Threads :
            (LockCall(t) /\ req[t].block /\ OwnIncompatible(t) # {}) =>
                SelfBlocked(t)']_vars
    /\ [](\A t \in Threads : SelfBlocked(t) => ~ENABLED Wake(t))
    /\ [][\A t \in Threads : SelfBlocked(t) =>
            /\ SelfBlocked(t)'
            /\ OwnIncompatible(t)' = OwnIncompatible(t)
            /\ req'[t] = req[t]]_vars

\* A thread holds a shared guard on P, nobody else holds any, and it is
\* suspended in lock(ShouldBlock::Yes) on P.
C28_Witness ==
    \E t \in Threads :
        /\ SelfBlocked(t) /\ req[t].op = "lock" /\ req[t].path = "P"
        /\ \A h \in GuardsOn("P") : guards[h].owner = t /\ guards[h].op = "lock_shared"

\* ---------------------------------------------------------- signal claims

\* Guard g has been constructed and dropped while no other guard did a step.
AloneDropped(g) ==
    /\ sg[g].phase = "dropped"
    /\ \A o \in SigGuards \ {g} : sg[o].phase = "none"

\* C9: after ignore/default returned Some(guard) and the guard was dropped,
\* nothing else having changed dispositions, every signal of the input has
\* the disposition it had immediately before the call.
C9_RestoreRoundTrip ==
    \A g \in SigGuards :
        (AloneDropped(g) /\ sg[g].result = "Some") =>
            \A i \in 1..Len(sg[g].input) :
                disp[sg[g].input[i]] = disp0[sg[g].input[i]]

\* C10: ignore/default return None exactly when a libc::signal installation
\* of the call returned SIG_ERR, and Some(guard) otherwise; a guard that was
\* returned stays Some through its drop.
C10_NoneIffRefused ==
    \A g \in SigGuards :
        /\ sg[g].phase \in {"failed", "active", "restoring", "dropped"} =>
                /\ sg[g].result \in {"None", "Some"}
                /\ sg[g].result = "None" <=> sg[g].sawErr
        /\ sg[g].phase \in {"active", "restoring", "dropped"} =>
                sg[g].result = "Some"
        /\ sg[g].phase = "failed" => sg[g].result = "None"

\* The second installation of a call was refused and the call returned None.
C10_Witness ==
    /\ sg[1].phase = "failed" /\ sg[1].result = "None" /\ sg[1].sawErr
    /\ sg[1].done = 1 /\ sg[1].input[2] \in Refused

\* C11: when the installation for the k-th signal of the input is refused,
\* the call stops and returns None; the signals changed by the k-1 earlier
\* installations keep the newly installed disposition, every other signal
\* (the k-th and those after it included) has the disposition it had before
\* the call, and no later step of the guard restores or installs anything.
C11_PartialFailureKeeps ==
    \A g \in SigGuards :
        sg[g].phase = "failed" =>
            LET k == sg[g].done + 1
                changed == {sg[g].input[i] : i \in 1..sg[g].done}
            IN /\ sg[g].result = "None"
               /\ k <= Len(sg[g].input)
               /\ sg[g].input[k] \in Refused
               /\ \A s \in changed : disp[s] = sg[g].fallback
               /\ \A s \in Signals \ changed : disp[s] = disp0[s]
               /\ \A s \in Signals : ~ENABLED SigRestore(g, s)
               /\ ~ENABLED SigInstall(g)

\* ignore([int, kill]) on a process with a handler on SIGINT returned None
\* and SIGINT is left ignored.
C11_Witness ==
    /\ sg[1].phase = "failed" /\ sg[1].fallback = "SIG_IGN"
    /\ sg[1].input = <<"SIGINT", "SIGKILL">>
    /\ disp0["SIGINT"] = "handler" /\ disp["SIGINT"] = "SIG_IGN"

\* C20: when ignore (resp. default) has returned Some(guard), the stash has
\* an entry for every distinct signal of the input and for no other signal,
\* and until the guard's drop begins, nothing else changing dispositions,
\* each of these signals has the disposition SIG_IGN (resp. SIG_DFL).
C20_ActiveGuard ==
    \A g \in SigGuards :
        LET given == {sg[g].input[i] : i \in 1..Len(sg[g].input)}
        IN /\ sg[g].result = "Some" =>
                {s \in Signals : sg[g].stash[s] # Absent} = given
           /\ sg[g].phase = "active" =>
                /\ sg[g].result = "Some"
                /\ sg[g].fallback \in {"SIG_IGN", "SIG_DFL"}
                /\ \A s \in given : disp[s] = sg[g].fallback

\* ignore([int, term]) returned a guard over two signals that both had a
\* handler.
C20_Witness ==
    /\ sg[1].phase = "active" /\ sg[1].fallback = "SIG_IGN"
    /\ sg[1].input = <<"SIGINT", "SIGTERM">>
    /\ disp0["SIGINT"] = "handler" /\ disp0["SIGTERM"] = "handler"
    /\ sg[1].stash["SIGINT"] = "handler" /\ sg[1].stash["SIGTERM"] = "handler"

\* C21: the installation of a signal by a guard reads the previous
\* disposition and installs the new one in one step: in the step that adds
\* the signal to the stash, the value stashed is the disposition in effect
\* just before it and the new handler is in effect just after it, whatever
\* the other thread's guard did before or does afterwards.
C21_AtomicCapture ==
    [][\A g \in SigGuards :
        sg'[g].done = sg[g].done + 1 =>
            LET sig == sg[g].input[sg'[g].done]
            IN /\ sg'[g].stash[sig] = disp[sig]
               /\ sg'[g].stash[sig] \in Dispositions
               /\ disp'[sig] = sg[g].fallback]_vars

\* Guard 1 (default) stashed SIG_IGN for SIGINT: the disposition the other
\* thread's guard (ignore) had installed, not the one the process began with.
C21_Witness ==
    /\ sg[1].fallback = "SIG_DFL" /\ sg[1].stash["SIGINT"] = "SIG_IGN"
    /\ sg[2].fallback = "SIG_IGN" /\ sg[2].phase = "active"
    /\ disp0["SIGINT"] = "SIG_DFL" /\ disp["SIGINT"] = "SIG_DFL"

\* The keys of the stash of guard g.
StashKeys(g) == {s \in Signals : sg[g].stash[s] # Absent}

\* C22: drop() calls libc::signal once for every entry of the stash; a call
\* that returns SIG_ERR is discarded: it raises no panic, the entries not yet
\* visited can still be reinstalled, and when drop() is over every entry has
\* been attempted, with as many calls as there are entries.
C22_DropReinstallsAll ==
    \A g \in SigGuards :
        /\ sg[g].phase # "panicked"
        /\ sg[g].restored \subseteq StashKeys(g)
        /\ sg[g].calls = Cardinality(sg[g].restored)
        /\ sg[g].phase = "restoring" =>
              \A s \in StashKeys(g) \ sg[g].restored : ENABLED SigRestore(g, s)
        /\ sg[g].phase = "dropped" => sg[g].restored = StashKeys(g)

\* The reinstallation of SIGINT was refused, SIGTERM is still to be visited.
C22_Witness ==
    /\ sg[1].phase = "restoring"
    /\ sg[1].errs = {"SIGINT"} /\ sg[1].restored = {"SIGINT"}
    /\ StashKeys(1) = {"SIGINT", "SIGTERM"}

\* Both threads have constructed and dropped their guard.
BothDropped == \A g \in {1, 2} : sg[g].phase = "dropped"

\* The input of guard g yields signal s more than once.
Repeats(g, s) == Cardinality({i \in 1..Len(sg[g].input) : sg[g].input[i] = s}) > 1

\* C23: with nothing serializing the two threads, once both guards are
\* dropped a signal is left with a value one of the guards stashed for it (the
\* guard that restored last wins), which for a signal both guards cover can
\* differ from the disposition in effect before either was constructed; a
\* signal neither guard covers keeps its disposition, and a signal only one
\* guard covers, yielded once, gets its original disposition back.
C23_OverlapHazard ==
    BothDropped =>
        \A s \in Signals :
            /\ s \notin StashKeys(1) \cup StashKeys(2) => disp[s] = disp0[s]
            /\ s \in StashKeys(1) \cup StashKeys(2) =>
                  \E g \in {1, 2} : s \in StashKeys(g) /\ disp[s] = sg[g].stash[s]
            /\ disp[s] # disp0[s] =>
                  \/ s \in StashKeys(1) \cap StashKeys(2)
                  \/ \E g \in {1, 2} : Repeats(g, s)

\* Both guards were built over [SIGINT] alone and both are dropped, and SIGINT,
\* which had a handler before, is left ignored: guard 2 stashed what guard 1
\* had installed and restored it after guard 1 restored the handler.
C23_Witness ==
    /\ BothDropped
    /\ sg[1].input = <<"SIGINT">> /\ sg[2].input = <<"SIGINT">>
    /\ sg[1].fallback = "SIG_IGN" /\ sg[2].fallback = "SIG_DFL"
    /\ disp0["SIGINT"] = "handler" /\ disp["SIGINT"] = "SIG_IGN"

\* C29: when guard 2, covering a signal guard 1 covers, was constructed
\* while guard 1 was active and dropped before guard 1, then after the drop of guard 1 every signal either guard
\* covered has the disposition it had before guard 1 was constructed.
C29_NestedRoundTrip ==
    (BothDropped /\ StashKeys(1) \cap StashKeys(2) # {}) =>
        \A s \in StashKeys(1) \cup StashKeys(2) : disp[s] = disp0[s]

\* The signals the input of guard g yields.
InputSignals(g) == {sg[g].input[i] : i \in 1..Len(sg[g].input)}
\* The locks held on path q, handle by handle, and the guards alive on it.
LocksOn(q) ==
    [h \in Handles |-> IF files[h].open /\ files[h].path = q
                       THEN files[h].lock ELSE "none"]
\* The step is part of a call on path p: a touch, a lock request, a wake-up,
\* a return or the drop of a guard.
ActsOn(p) ==
    \/ last' # last /\ last'.path = p
    \/ \E t \in Threads : pc'[t] # pc[t] /\ (req[t].path = p \/ req'[t].path = p)
    \/ \E h \in Handles : guards[h].alive /\ ~guards'[h].alive /\ guards[h].path = p

\* C30: frame of the guards. A step of the construction or of the drop of a
\* SignalGuard changes the disposition of no signal outside its input, so a
\* signal outside the input keeps its disposition throughout, and a guard
\* over an empty input changes nothing and is returned as Some. A step of an
\* acquisition on a path, successful or failed, or of a release on it,
\* changes neither the locks held nor the guards alive on another path.
C30_Frame ==
    /\ [][\A s \in Signals : disp'[s] # disp[s] => s \in InputSignals(1)]_vars
    /\ [](\A s \in Signals \ InputSignals(1) : disp[s] = disp0[s])
    /\ []((sg[1].phase # "none" /\ sg[1].input = <<>>) =>
            /\ sg[1].phase # "failed"
            /\ sg[1].phase # "installing" => sg[1].result = "Some"
            /\ disp = disp0)
    /\ [][\A p \in Paths : ActsOn(p) =>
            \A q \in Paths \ {p} :
                /\ LocksOn(q)' = LocksOn(q)
                /\ GuardsOn(q)' = GuardsOn(q)]_vars

\* An acquisition on P was refused while thread 2 held the exclusive lock on
\* Q through its guard, and held it still.
C30_Witness ==
    /\ last.ev = "acquire" /\ last.path = "P" /\ last.kind = "WouldBlock"
    /\ \E h \in ExclusiveGuards("Q") :
            guards[h].owner = 2 /\ files[h].lock = "exclusive"

\* -------------------------------------------------- claims on SignalKind

C13_ReturnsOnlyUnspawned ==
    /\ ex.result # "none" => ~ex.spawned
    /\ ex.spawned => ex.pc # "caller"

\* C26: on the target that emulates exec, a call runs in this order: the
\* ctrl-c handler is installed, the command is spawned, the child is waited
\* for, the process exits. The command is spawned only after the handler was
\* installed in this call, never after the installation failed; the process
\* exits only after the child has terminated, and with the child's exit code,
\* or 1 when the child has none.
C26_EmulatedExecOrder ==
    /\ []((ex.platform = "windows" /\ ex.result = "CtrlErr") =>
            ~ex.spawned /\ ex.pc = "caller")
    /\ []((ex.platform = "windows" /\ ex.pc \in {"exiting", "exited"}) =>
            ex.ctrl /\ ex.spawned /\ ex.child = "exited")
    /\ [](ex.pc = "exited" =>
            /\ ex.code # NoCode => ex.exit = ex.code
            /\ ex.code = NoCode => ex.exit = 1)
    /\ [][ex.platform = "windows" =>
            /\ (ex'.pc # ex.pc /\ ex.pc # "caller" /\ ex'.pc # "caller") =>
                    <<ex.pc, ex'.pc>> \in {<<"entered", "spawning">>,
                                           <<"spawning", "waiting">>,
                                           <<"waiting", "exiting">>,
                                           <<"exiting", "exited">>}
            /\ ex'.pc = "spawning" => ex'.ctrl /\ ~ex'.spawned
            /\ (ex'.spawned /\ ~ex.spawned) => ex.pc = "spawning" /\ ex.ctrl
            /\ ex.pc = "exited" => ex' = ex]_vars

\* The child was ended without an exit code and the process exited with 1.
C26_Witness ==
    /\ ex.platform = "windows" /\ ex.pc = "exited"
    /\ ex.child = "exited" /\ ex.code = NoCode /\ ex.exit = 1

\* ---------------------------------------------- claims on touch and mkdir

\* C15: mkdir, with either MkdirOptions, on a path that exists returns
\* Ok(()) and changes nothing on disk; a mkdir that returned Ok leaves its
\* path in existence, and no mkdir removes or alters what existed, so
\* repeated calls after a first success all return Ok.
C15_MkdirIdempotent ==
    /\ []((fsLast.op = "mkdir" /\ fsLast.res = "Ok") =>
            KindOf(tree, fsLast.node) # "absent")
    /\ [][fsLast'.op = "mkdir" =>
            /\ fsLast'.was = KindOf(tree, fsLast'.node)
            /\ KindOf(tree, fsLast'.node) # "absent" =>
                    (fsLast'.res = "Ok" /\ tree' = tree)
            /\ \A n \in Nodes : tree[n].kind # "absent" => tree'[n] = tree[n]]_vars

\* mkdir(WithoutParents) on a directory that exists and holds a written
\* file returned Ok.
C15_Witness ==
    /\ fsLast.op = "mkdir" /\ fsLast.opts = "WithoutParents"
    /\ fsLast.node = "x" /\ fsLast.was = "dir" /\ fsLast.res = "Ok"
    /\ tree["x/f"].kind = "file" /\ Len(tree["x/f"].data) > 0

\* C16: touch on an absent path whose parents are absent or directories
\* creates the file (empty) and the parents; touch on an existing file
\* leaves its content as it was; and a handle that touch returned reads,
\* from its start, exactly the content written so far.
C16_TouchKeepsContent ==
    /\ (fsLast.op = "touch" /\ fsLast.res = "Ok") =>
            /\ tree[fsLast.node].kind = "file"
            /\ KindOf(tree, Parent(fsLast.node)) = "dir"
            /\ tree[fsLast.node].data = fsLast.before
    /\ (fsLast.op = "touch" /\ fsLast.was = "absent" /\ fsLast.pwas # "file") =>
            fsLast.res = "Ok"
    /\ (fsLast.op = "touch" /\ fsLast.was = "file") => fsLast.res = "Ok"
    /\ (fsLast.op = "read" /\ fsLast.from = 0) =>
            fsLast.got = tree[fsLast.node].data

\* A file written through the handle of a first touch was touched again,
\* and the second handle read the two bytes written.
C16_Witness ==
    /\ fsLast.op = "read" /\ fsLast.from = 0 /\ fsLast.node = "x/f"
    /\ Len(fsLast.got) = 2
    /\ open["h1"].node = "x/f" /\ open["h2"].node = "x/f"
    /\ open["h1"].pos = 2 /\ open["h2"].pos = 2

\* ------------------------------------------------ claims on Env and xdg

\* C17: xdg::config, data, cache and state return None if and only if
\* home() returns None and env has no key XDG_CONFIG_HOME, XDG_DATA_HOME,
\* XDG_CACHE_HOME, XDG_STATE_HOME respectively, and Some otherwise.
C17_XdgNoneIffNoHomeNoKey ==
    envLast.op \in DOMAIN XdgKey =>
        (envLast.out = None <=>
            (host.home = None /\ envLast.key \notin DOMAIN envObj.env))

\* Two keys are equal up to the case of their letters.
CaseEq(k1, k2) == k1.utf8 /\ k2.utf8 /\ ToUppercase(k1.s) = ToUppercase(k2.s)

\* C18: get_os returns the value stored under exactly the key when it is
\* present. When it is absent: off Windows get_os returns None, has returns
\* false and get returns Err(Missing(key)), whatever keys of another case
\* are present; on Windows get_os returns the value of a present key that is
\* equal to it up to letter case, when there is one.
C18_EnvLookup ==
    LET key == envLast.key
        m == envObj.env
        looked == envLast.op \in {"get_os", "has", "get"}
    IN /\ (envLast.op = "get_os" /\ key \in DOMAIN m) => envLast.out = Some(m[key])
       /\ (looked /\ key \notin DOMAIN m /\ host.platform # "windows") =>
            /\ envLast.op = "get_os" => envLast.out = None
            /\ envLast.op = "has" => envLast.out = [is |-> FALSE]
            /\ envLast.op = "get" =>
                    envLast.out = [ok |-> FALSE, err |-> "Missing", key |-> key]
       /\ (envLast.op = "get_os" /\ key \notin DOMAIN m /\ host.platform = "windows"
                /\ \E k \in DOMAIN m : CaseEq(k, key)) =>
            /\ envLast.out.some
            /\ \E k \in DOMAIN m : CaseEq(k, key) /\ envLast.out.v = m[k]

\* Off Windows, get("aLA") returned Missing while "ala" and "ALA" were set.
C18_Witness ==
    /\ host.platform = "unix" /\ envLast.op = "get"
    /\ envLast.key = Str(<<"a", "L", "A">>)
    /\ DOMAIN envObj.env = {Str(<<"a", "l", "a">>), Str(<<"A", "L", "A">>)}
    /\ envLast.out = [ok |-> FALSE, err |-> "Missing", key |-> envLast.key]

====
